---- MODULE Spec2Model ----
(***************************************************************************)
(* Model of RealtimeTelemetryProvider                                      *)
(* (src/src/providers/realtime-telemetry-provider.js): one websocket, a    *)
(* registry of listeners, a queue of outbound requests, a reconnect timer  *)
(* with a fallback schedule and a keepalive interval.                      *)
(*                                                                         *)
(* Every handler of the provider runs to completion (single-threaded       *)
(* event loop), so each handler is one action.  socket.send may throw on   *)
(* any call: an action that sends takes the set F of the positions, among  *)
(* the send attempts of that handler, at which send throws.                *)
(***************************************************************************)
EXTENDS Integers, Sequences, FiniteSets

\* ------------------------------------------------------------------ bounds
MaxQueue == 2       \* longest outbound queue explored
MaxSeq == 3         \* largest sequence number explored on one socket
MaxSockets == 2     \* sockets that are not yet closed at the same time
MaxFails == 1       \* reconnects scheduled in a row, in Spec and SpecDispatch
MaxRetries == 7     \* reconnects scheduled in a row, in SpecRetry
MaxParams == 2      \* parameter updates in one inbound frame
MaxRanges == 1      \* entries of a sample's alarmRange list

\* --------------------------------------------------------------- constants
FALLBACK_AND_WAIT_MS == <<1000, 5000, 5000, 10000, 10000, 30000>>

\* What FALLBACK_AND_WAIT_MS[i] yields for an index outside the array.
Undefined == -1

EVENTS_OBJECT_TYPE == "yamcs.events"

\* identifier.key of the domain objects the host subscribes to
Ids == {EVENTS_OBJECT_TYPE, "~p1"}

\* the callbacks the host passes to subscribe
Callbacks == {"cb1", "cb2"}

\* parameter names the server reports in PARAMETER frames
Names == {"/p1", "/zz"}

\* utils.js: identifier key -> Yamcs qualified name ('~' becomes '/')
idToQualifiedName(id) ==
    CASE id = "~p1" -> "/p1"
      [] id = "~zz" -> "/zz"
      [] OTHER -> id

\* utils.js: Yamcs qualified name -> identifier key ('/' becomes '~')
qualifiedNameToId(name) ==
    CASE name = "/p1" -> "~p1"
      [] name = "/zz" -> "~zz"
      [] OTHER -> name

\* ---------------------------------------------------------------- requests
\* The request strings the provider builds, as (cmd, op, name).
eventSubscribeReq == [cmd |-> "events", op |-> "subscribe", name |-> ""]
eventUnsubscribeReq == [cmd |-> "events", op |-> "unsubscribe", name |-> ""]
tlmSubscribeReq(name) == [cmd |-> "parameter", op |-> "subscribe", name |-> name]
tlmUnsubscribeReq(name) == [cmd |-> "parameter", op |-> "unsubscribe", name |-> name]
\* '{"parameter": "subscribe", "data": { "id": [] }}'
idleTlmSubscribeReq == [cmd |-> "parameter", op |-> "subscribe", name |-> "[]"]

VARIABLES
    connected,          \* this.connected
    listener,           \* this.listener: sequence of <<id, callback>> in key order
    requests,           \* this.requests
    seqNo,              \* this.seqNo
    currentWaitIndex,   \* this.currentWaitIndex
    reconnectTimeout,   \* this.reconnectTimeout: "undefined", or the handle of a
                        \* timer that is "pending" or was "cancelled"
    socket,             \* this.socket: 0 before the first connect(), then 1
    sockets,            \* the sockets created and not yet closed, all with the
                        \* same four handlers: how many are "connecting", "open"
                        \* or "errored" (error fired, close still to come)
    keepAliveInterval,  \* an interval timer set by onopen is running
    timerDelay,         \* delay the pending reconnect timer was armed with, else 0
    fails,              \* reconnects scheduled since the last open
    wire,               \* socket.send calls of the last handler: the request, whether
                        \* send returned (ok) and the method that made the call (by)
    subscribed,         \* channels whose subscribe was sent on this.socket
    delivered,          \* callback invocations of the last onmessage: <<cb, id>>
    handles,            \* per registration (id, callback): -1 when subscribe has not
                        \* returned a handle for it, else the requests its newest
                        \* handle has sent or queued: 0, 1, or 2 for two or more
    frame,              \* the frame the last onmessage received
    datum,              \* the telemetry point handed to LimitEvaluator.evaluate
    evaluationResult    \* whether evaluate was called on datum, and what it returned

vars == <<connected, listener, requests, seqNo, currentWaitIndex, reconnectTimeout,
          socket, sockets, keepAliveInterval, timerDelay, fails, wire, subscribed,
          delivered, handles, frame, datum, evaluationResult>>

Regs == Ids \X Callbacks

\* ------------------------------------------------------- listener (a JS object)
Keys(l) == [i \in 1..Len(l) |-> l[i][1]]
HasKey(l, id) == \E i \in 1..Len(l) : l[i][1] = id
Lookup(l, id) == IF HasKey(l, id)
                 THEN l[CHOOSE i \in 1..Len(l) : l[i][1] = id][2]
                 ELSE "undefined"
\* l[id] = cb: an existing key keeps its place in the key order
SetKey(l, id, cb) ==
    IF HasKey(l, id)
    THEN [i \in 1..Len(l) |-> IF l[i][1] = id THEN <<id, cb>> ELSE l[i]]
    ELSE Append(l, <<id, cb>>)
\* delete l[id]
DeleteKey(l, id) == SelectSeq(l, LAMBDA e : e[1] # id)

\* ------------------------------------------------ the provider's methods
\* A handler works on a record of the fields it may change; the action that
\* models the handler commits the record it ends with.
Cur == [connected |-> connected, requests |-> requests, seqNo |-> seqNo,
        currentWaitIndex |-> currentWaitIndex, reconnectTimeout |-> reconnectTimeout,
        timerDelay |-> timerDelay, fails |-> fails, subscribed |-> subscribed,
        wire |-> <<>>]

\* FALLBACK_AND_WAIT_MS[i] of the source (0-based)
WaitMs(i) == IF i + 1 \in DOMAIN FALLBACK_AND_WAIT_MS
             THEN FALLBACK_AND_WAIT_MS[i + 1]
             ELSE Undefined

\* reconnect()
Reconnect(st) ==
    IF st.reconnectTimeout # "undefined"
    THEN st
    ELSE [st EXCEPT !.reconnectTimeout = "pending",
                    !.timerDelay = WaitMs(st.currentWaitIndex),
                    !.currentWaitIndex =
                        IF @ < Len(FALLBACK_AND_WAIT_MS) THEN @ + 1 ELSE @,
                    !.fails = @ + 1]

\* sendRequest(request): the sequence number advances before socket.send,
\* which throws when `fail`
SendRequest(st, req, fail, by) ==
    [st EXCEPT !.seqNo = @ + 1,
               !.wire = Append(@, [req |-> req, ok |-> ~fail, by |-> by]),
               !.subscribed = IF ~fail /\ req.op = "subscribe" /\ req.name # "[]"
                              THEN @ \cup {req} ELSE @]

\* sendOrQueueRequest that forgets the request when send throws
SendOrQueueRequest_Drop(st, req, F, by) ==
    IF st.connected
    THEN LET k == Len(st.wire) + 1
             s1 == SendRequest(st, req, k \in F, by)
         IN  IF k \notin F
             THEN s1
             ELSE Reconnect([s1 EXCEPT !.connected = FALSE])
    ELSE [st EXCEPT !.requests = Append(@, req)]

\* sendOrQueueRequest(request); F: the send attempts of the handler that throw;
\* by: the method that calls
SendOrQueueRequest(st, req, F, by) ==
    IF st.connected
    THEN LET k == Len(st.wire) + 1
             s1 == SendRequest(st, req, k \in F, by)
         IN  IF k \notin F
             THEN s1
             ELSE Reconnect([s1 EXCEPT !.connected = FALSE,
                                       !.requests = Append(@, req)])
    ELSE [st EXCEPT !.requests = Append(@, req)]

tlmSubscribe(st, name, F, by) == SendOrQueueRequest(st, tlmSubscribeReq(name), F, by)
eventSubscribe(st, F, by) == SendOrQueueRequest(st, eventSubscribeReq, F, by)
\* tlmUnsubscribe(id)
tlmUnsubscribe(st, id, F, by) == SendOrQueueRequest(st, tlmUnsubscribeReq(id), F, by)
eventUnsubscribe(st, F, by) == SendOrQueueRequest(st, eventUnsubscribeReq, F, by)
idleTlmSubscribe(st, F, by) == SendOrQueueRequest(st, idleTlmSubscribeReq, F, by)

\* the body of resubscribeToAll's forEach, for one key
ResubscribeOne(st, id, F) ==
    IF id = EVENTS_OBJECT_TYPE
    THEN eventSubscribe(st, F, "resubscribeToAll")
    ELSE tlmSubscribe(st, idToQualifiedName(id), F, "resubscribeToAll")

\* resubscribeToAll(), over Object.keys(this.listener)
RECURSIVE ResubscribeToAll(_, _, _)
ResubscribeToAll(st, keys, F) ==
    IF keys = <<>> THEN st
    ELSE ResubscribeToAll(ResubscribeOne(st, Head(keys), F), Tail(keys), F)

\* the body of idleSubscribe's forEach, for one key
IdleOne(st, id, F) ==
    IF id = EVENTS_OBJECT_TYPE
    THEN eventSubscribe(st, F, "idleSubscribe")
    ELSE idleTlmSubscribe(st, F, "idleSubscribe")

\* idleSubscribe()
RECURSIVE IdleSubscribe(_, _, _)
IdleSubscribe(st, keys, F) ==
    IF keys = <<>> THEN st
    ELSE IdleSubscribe(IdleOne(st, Head(keys), F), Tail(keys), F)

\* the callback of flushQueue's filter for one request: the request is sent
\* whatever this.connected is; a request whose send throws is kept
FlushOne(acc, req, F) ==
    LET k == Len(acc.st.wire) + 1
        s1 == SendRequest(acc.st, req, k \in F, "flushQueue")
    IN  IF k \in F
        THEN [st |-> [s1 EXCEPT !.connected = FALSE],
              kept |-> Append(acc.kept, req),
              shouldReconnect |-> TRUE]
        ELSE [acc EXCEPT !.st = s1]

RECURSIVE FlushFilter(_, _, _)
FlushFilter(acc, q, F) ==
    IF q = <<>> THEN acc
    ELSE FlushFilter(FlushOne(acc, Head(q), F), Tail(q), F)

\* flushQueue()
FlushQueue(st, F) ==
    LET r == FlushFilter([st |-> st, kept |-> <<>>, shouldReconnect |-> FALSE],
                         st.requests, F)
        s1 == [r.st EXCEPT !.requests = r.kept]
    IN  IF r.shouldReconnect THEN Reconnect(s1) ELSE s1

\* F names only send attempts the handler made
Fits(st, F) == F \subseteq 1..Len(st.wire)

\* the fields a handler leaves behind
Commit(st) ==
    /\ connected' = st.connected
    /\ requests' = st.requests
    /\ seqNo' = st.seqNo
    /\ currentWaitIndex' = st.currentWaitIndex
    /\ reconnectTimeout' = st.reconnectTimeout
    /\ timerDelay' = st.timerDelay
    /\ fails' = st.fails
    /\ subscribed' = st.subscribed
    /\ wire' = st.wire

\* --------------------------------------------------------------- the actions
SocketStates == {"connecting", "open", "errored"}
Live == sockets["connecting"] + sockets["open"] + sockets["errored"]
\* new WebSocket(wsUrl)
NewSocket(b) == [b EXCEPT !["connecting"] = @ + 1]
\* one socket in state `from` moves to state `to` ("closed": it is gone)
Move(b, from, to) ==
    IF to = "closed"
    THEN [b EXCEPT ![from] = @ - 1]
    ELSE [b EXCEPT ![from] = @ - 1, ![to] = b[to] + 1]

\* JSON.parse(event.data): frames of fewer than 4 elements, and bodies with
\* dt PARAMETER (a list of parameters), EVENT or anything else
NoFrame == [len |-> 0, dt |-> "", params |-> <<>>]
ParamSeqs == UNION {[1..n -> Names] : n \in 0..MaxParams}
Frames == {[len |-> 4, dt |-> "PARAMETER", params |-> p] : p \in ParamSeqs}
          \cup {[len |-> 4, dt |-> "EVENT", params |-> <<>>],
                [len |-> 3, dt |-> "EVENT", params |-> <<>>],
                [len |-> 4, dt |-> "OTHER", params |-> <<>>]}

\* the constructor of the provider
ProviderInit ==
    /\ connected = FALSE
    /\ listener = <<>>
    /\ requests = <<>>
    /\ seqNo = 0
    /\ currentWaitIndex = 0
    /\ reconnectTimeout = "undefined"
    /\ socket = 0
    /\ sockets = [k \in SocketStates |-> 0]
    /\ keepAliveInterval = FALSE
    /\ timerDelay = 0
    /\ fails = 0
    /\ wire = <<>>
    /\ subscribed = {}
    /\ delivered = <<>>
    /\ handles = [r \in Regs |-> -1]
    /\ frame = NoFrame

\* ------------------------------------------------------------ LimitEvaluator
\* An optional property is <<>> when absent (undefined) and <<v>> when it is v.
MONITORING_RESULT_CSS ==
    [k \in {"WATCH", "WARNING", "DISTRESS", "CRITICAL", "SEVERE"} |->
        IF k \in {"WATCH", "WARNING"} THEN "is-limit--yellow" ELSE "is-limit--red"]

RANGE_CONDITION_CSS ==
    [k \in {"LOW", "HIGH"} |-> IF k = "LOW" THEN "is-limit--lwr" ELSE "is-limit--upr"]

\* property names every object inherits from Object.prototype
ObjectPrototypeKeys == {"constructor"}

\* key in obj: own and inherited properties
In(key, obj) == key \in DOMAIN obj \cup ObjectPrototypeKeys

\* obj[key]: an inherited property is a function, not a style token
GetProp(obj, key) == IF key \in DOMAIN obj THEN obj[key] ELSE "function Object()"

\* truthiness of an optional string and of an optional number
TruthyStr(o) == o # <<>> /\ o[1] # ""
TruthyNum(o) == o # <<>> /\ o[1] # 0

\* the values of a bound of an alarm range
MinValues == {<<>>, <<0>>, <<-3>>}
MinExclusiveValues == {<<>>, <<2>>}
MaxValues == {<<>>, <<0>>, <<7>>}
MaxExclusiveValues == {<<>>, <<9>>}

AlarmRanges ==
    [level : {"WATCH", "CRITICAL"},
     minInclusive : MinValues, minExclusive : MinExclusiveValues,
     maxInclusive : MaxValues, maxExclusive : MaxExclusiveValues]

AlarmRangeLists == UNION {[1..n -> AlarmRanges] : n \in 0..MaxRanges}

\* the telemetry points: monitoringResult, rangeCondition and alarmRange are
\* each optional
Datums ==
    [monitoringResult : {<<>>, <<"">>, <<"IN_LIMITS">>, <<"WATCH">>, <<"WARNING">>,
                         <<"DISTRESS">>, <<"CRITICAL">>, <<"SEVERE">>, <<"constructor">>},
     rangeCondition : {<<>>, <<"LOW">>, <<"HIGH">>, <<"constructor">>},
     alarmRange : {<<>>} \cup {<<l>> : l \in AlarmRangeLists}]

NoDatum == [monitoringResult |-> <<>>, rangeCondition |-> <<>>, alarmRange |-> <<>>]
NotCalled == [called |-> FALSE, value |-> <<>>]

\* Array.prototype.find: the first element whose level is result, optional
RECURSIVE Find(_, _)
Find(l, result) ==
    IF l = <<>> THEN <<>>
    ELSE IF Head(l).level = result THEN <<Head(l)>>
    ELSE Find(Tail(l), result)

findAlarmRange(d, result) ==
    IF d.alarmRange # <<>> THEN Find(d.alarmRange[1], result) ELSE <<>>

addLimitRange(d, result, evaluationResult0) ==
    LET range == findAlarmRange(d, result) IN
    IF range = <<>> THEN evaluationResult0
    ELSE LET r1 == IF TruthyNum(range[1].minInclusive)
                   THEN [evaluationResult0 EXCEPT !.low = range[1].minInclusive]
                   ELSE evaluationResult0
             r2 == IF TruthyNum(range[1].minExclusive)
                   THEN [r1 EXCEPT !.low = range[1].minExclusive] ELSE r1
             r3 == IF TruthyNum(range[1].maxInclusive)
                   THEN [r2 EXCEPT !.high = range[1].maxInclusive] ELSE r2
         IN IF TruthyNum(range[1].maxExclusive)
            THEN [r3 EXCEPT !.high = range[1].maxExclusive] ELSE r3

\* evaluate(datum, valueMetadata): <<>> when it returns nothing, else the
\* descriptor; cssClass is the sequence of the pieces concatenated
evaluate(d) ==
    IF TruthyStr(d.monitoringResult) /\ In(d.monitoringResult[1], MONITORING_RESULT_CSS)
    THEN LET r0 == [cssClass |-> <<GetProp(MONITORING_RESULT_CSS, d.monitoringResult[1])>>,
                    name |-> d.monitoringResult[1],
                    low |-> <<>>, high |-> <<>>]
         IN IF TruthyStr(d.rangeCondition) /\ In(d.rangeCondition[1], RANGE_CONDITION_CSS)
            THEN <<addLimitRange(d, d.monitoringResult[1],
                       [r0 EXCEPT !.cssClass =
                           @ \o <<" ", GetProp(RANGE_CONDITION_CSS, d.rangeCondition[1])>>])>>
            ELSE <<r0>>
    ELSE <<>>


Init ==
    /\ ProviderInit
    /\ datum = NoDatum
    /\ evaluationResult = NotCalled

\* the provider takes a step and no telemetry point is evaluated
Quiet == UNCHANGED <<datum, evaluationResult>>

\* connect(): returns at once when connected, else replaces this.socket
ConnectBody ==
    IF connected
    THEN /\ UNCHANGED <<socket, sockets>>
         /\ Commit(Cur)
    ELSE /\ socket' = 1
         /\ sockets' = NewSocket(sockets)
         /\ Commit([Cur EXCEPT !.seqNo = 0, !.connected = FALSE, !.subscribed = {}])

\* the host calls connect()
Connect ==
    /\ ConnectBody
    /\ delivered' = <<>>
    /\ frame' = NoFrame
    /\ UNCHANGED <<listener, keepAliveInterval, handles>>

\* the callback of reconnect()'s setTimeout: connect(), then the marker is deleted
TimerFire ==
    /\ reconnectTimeout = "pending"
    /\ IF connected
       THEN /\ UNCHANGED <<socket, sockets>>
            /\ Commit([Cur EXCEPT !.reconnectTimeout = "undefined", !.timerDelay = 0])
       ELSE /\ socket' = 1
            /\ sockets' = NewSocket(sockets)
            /\ Commit([Cur EXCEPT !.seqNo = 0, !.connected = FALSE,
                                  !.subscribed = {},
                                  !.reconnectTimeout = "undefined",
                                  !.timerDelay = 0])
    /\ delivered' = <<>>
    /\ frame' = NoFrame
    /\ UNCHANGED <<listener, keepAliveInterval, handles>>

\* onopen without the call of resubscribeToAll
OpenBody_NoSweep(st, keys, F) ==
    LET s0 == [st EXCEPT !.reconnectTimeout = IF @ = "pending" THEN "cancelled" ELSE @,
                         !.timerDelay = 0,
                         !.connected = TRUE,
                         !.currentWaitIndex = 0,
                         !.fails = 0]
    IN  FlushQueue(s0, F)

\* onopen that leaves this.currentWaitIndex as it is
OpenBody_NoReset(st, keys, F) ==
    LET s0 == [st EXCEPT !.reconnectTimeout = IF @ = "pending" THEN "cancelled" ELSE @,
                         !.timerDelay = 0,
                         !.connected = TRUE,
                         !.fails = 0]
    IN  FlushQueue(ResubscribeToAll(s0, keys, F), F)

\* socket.onopen; clearTimeout cancels the timer and leaves this.reconnectTimeout
OpenBody(st, keys, F) ==
    LET s0 == [st EXCEPT !.reconnectTimeout = IF @ = "pending" THEN "cancelled" ELSE @,
                         !.timerDelay = 0,
                         !.connected = TRUE,
                         !.currentWaitIndex = 0,
                         !.fails = 0]
    IN  FlushQueue(ResubscribeToAll(s0, keys, F), F)

OnOpen(F) ==
    /\ sockets["connecting"] > 0
    /\ sockets' = Move(sockets, "connecting", "open")
    /\ keepAliveInterval' = TRUE
    /\ \E st \in {OpenBody(Cur, Keys(listener), F)} : Fits(st, F) /\ Commit(st)
    /\ delivered' = <<>>
    /\ frame' = NoFrame
    /\ UNCHANGED <<socket, listener, handles>>

\* socket.onerror and socket.onclose
DropBody(st) == Reconnect([st EXCEPT !.connected = FALSE])

OnError(from) ==
    /\ from \in {"connecting", "open"}
    /\ sockets[from] > 0
    /\ sockets' = Move(sockets, from, "errored")
    /\ Commit(DropBody(Cur))
    /\ delivered' = <<>>
    /\ frame' = NoFrame
    /\ UNCHANGED <<socket, listener, keepAliveInterval, handles>>

OnClose(from) ==
    /\ sockets[from] > 0
    /\ sockets' = Move(sockets, from, "closed")
    /\ Commit(DropBody(Cur))
    /\ delivered' = <<>>
    /\ frame' = NoFrame
    /\ UNCHANGED <<socket, listener, keepAliveInterval, handles>>

\* socket.onmessage: the callbacks invoked, in order
RECURSIVE DeliverParams(_, _)
DeliverParams(l, params) ==
    IF params = <<>> THEN <<>>
    ELSE LET id == qualifiedNameToId(Head(params))
         IN  (IF Lookup(l, id) # "undefined" THEN <<<<Lookup(l, id), id>>>> ELSE <<>>)
             \o DeliverParams(l, Tail(params))

Dispatch(l, fr) ==
    IF fr.len < 4 THEN <<>>
    ELSE IF fr.dt = "PARAMETER" THEN DeliverParams(l, fr.params)
    ELSE IF fr.dt = "EVENT" /\ Lookup(l, EVENTS_OBJECT_TYPE) # "undefined"
         THEN <<<<Lookup(l, EVENTS_OBJECT_TYPE), EVENTS_OBJECT_TYPE>>>>
    ELSE <<>>

OnMessage(fr) ==
    /\ sockets["open"] > 0
    /\ delivered' = Dispatch(listener, fr)
    /\ frame' = fr
    /\ Commit(Cur)
    /\ UNCHANGED <<socket, sockets, listener, keepAliveInterval, handles>>

\* subscribe(domainObject, callback), with subscribeToEvent / subscribeToTelemetry
SubscribeBody(st, id, F) ==
    IF ~st.connected THEN st
    ELSE IF id = EVENTS_OBJECT_TYPE THEN eventSubscribe(st, F, "subscribe")
    ELSE tlmSubscribe(st, idToQualifiedName(id), F, "subscribe")

\* a registry that adds the callback beside the one already there
SubscribeListener_Add(l, id, cb) == Append(l, <<id, cb>>)

\* this.listener[id] = callback
SubscribeListener(l, id, cb) == SetKey(l, id, cb)

Subscribe(id, cb, F) ==
    /\ listener' = SubscribeListener(listener, id, cb)
    /\ \E st \in {SubscribeBody(Cur, id, F)} : Fits(st, F) /\ Commit(st)
    /\ handles' = [handles EXCEPT ![<<id, cb>>] = 0]
    /\ delivered' = <<>>
    /\ frame' = NoFrame
    /\ UNCHANGED <<socket, sockets, keepAliveInterval>>

\* the closures subscribe returns; the telemetry closure calls tlmUnsubscribe()
\* without an argument, so the request names "undefined"
UnsubscribeBody(st, id, F) ==
    IF id = EVENTS_OBJECT_TYPE THEN eventUnsubscribe(st, F, "unsubscribe")
    ELSE tlmUnsubscribe(st, "undefined", F, "unsubscribe")

\* requests a handler sent or queued
Issued(st) == IF st.wire # <<>> THEN Len(st.wire) ELSE Len(st.requests) - Len(requests)

Unsubscribe(id, cb, F) ==
    /\ handles[<<id, cb>>] >= 0
    /\ \E st \in {UnsubscribeBody(Cur, id, F)} :
           /\ Fits(st, F)
           /\ Commit(st)
           /\ handles' = [handles EXCEPT ![<<id, cb>>] =
                                         IF @ + Issued(st) < 2 THEN @ + Issued(st) ELSE 2]
    /\ listener' = DeleteKey(listener, id)
    /\ delivered' = <<>>
    /\ frame' = NoFrame
    /\ UNCHANGED <<socket, sockets, keepAliveInterval>>

\* a tick of the interval set by onopen: idleSubscribe()
KeepAliveTick(F) ==
    /\ keepAliveInterval
    /\ \E st \in {IdleSubscribe(Cur, Keys(listener), F)} : Fits(st, F) /\ Commit(st)
    /\ delivered' = <<>>
    /\ frame' = NoFrame
    /\ UNCHANGED <<socket, sockets, listener, keepAliveInterval, handles>>

\* what the explored runs are cut to
Bounded ==
    /\ Len(requests) <= MaxQueue
    /\ seqNo <= MaxSeq
    /\ fails <= MaxFails
    /\ Live <= MaxSockets

BoundedRetry ==
    /\ Len(requests) <= MaxQueue
    /\ seqNo <= MaxSeq
    /\ fails <= MaxRetries
    /\ Live <= MaxSockets

\* The host connects once, then subscribes and unsubscribes; sockets open, fail
\* and close, the reconnect timer fires, and any send may throw.
Next ==
    \/ socket = 0 /\ Connect /\ Bounded' /\ Quiet
    \/ TimerFire /\ Bounded' /\ Quiet
    \/ \E F \in SUBSET (1..(Len(listener) + Len(requests) + 1)) : OnOpen(F) /\ Bounded' /\ Quiet
    \/ \E from \in SocketStates : OnError(from) /\ Bounded' /\ Quiet
    \/ \E from \in SocketStates : OnClose(from) /\ Bounded' /\ Quiet
    \/ \E id \in Ids : \E F \in SUBSET {1} : Subscribe(id, "cb1", F) /\ Bounded' /\ Quiet
    \/ \E id \in Ids : \E F \in SUBSET {1} : Unsubscribe(id, "cb1", F) /\ Bounded' /\ Quiet

Spec == Init /\ [][Next]_vars

\* The connection fails again and again: the host connects once and subscribes
\* to the events only; the keepalive interval ticks.
NextRetry ==
    \/ socket = 0 /\ Connect /\ BoundedRetry' /\ Quiet
    \/ TimerFire /\ BoundedRetry' /\ Quiet
    \/ \E F \in SUBSET (1..(Len(listener) + Len(requests) + 1)) : OnOpen(F) /\ BoundedRetry' /\ Quiet
    \/ \E from \in SocketStates : OnError(from) /\ BoundedRetry' /\ Quiet
    \/ \E from \in SocketStates : OnClose(from) /\ BoundedRetry' /\ Quiet
    \/ \E F \in SUBSET {1} : Subscribe(EVENTS_OBJECT_TYPE, "cb1", F) /\ BoundedRetry' /\ Quiet
    \/ \E F \in SUBSET (1..Len(listener)) : KeepAliveTick(F) /\ BoundedRetry' /\ Quiet

SpecRetry == Init /\ [][NextRetry]_vars

\* Frames arrive while the host subscribes and unsubscribes with either
\* callback; no send throws.
NextDispatch ==
    \/ socket = 0 /\ Connect /\ Bounded' /\ Quiet
    \/ TimerFire /\ Bounded' /\ Quiet
    \/ OnOpen({}) /\ Bounded' /\ Quiet
    \/ \E from \in SocketStates : OnClose(from) /\ Bounded' /\ Quiet
    \/ \E id \in Ids : \E cb \in Callbacks : Subscribe(id, cb, {}) /\ Bounded' /\ Quiet
    \/ \E id \in Ids : \E cb \in Callbacks : Unsubscribe(id, cb, {}) /\ Bounded' /\ Quiet
    \/ \E fr \in Frames : OnMessage(fr) /\ Bounded' /\ Quiet

SpecDispatch == Init /\ [][NextDispatch]_vars

\* The host calls connect() at any time, and subscribes to the events; sockets
\* open, fail and close, the reconnect timer fires, and any send may throw.
NextConnect ==
    \/ Connect /\ Bounded' /\ Quiet
    \/ TimerFire /\ Bounded' /\ Quiet
    \/ \E F \in SUBSET (1..(Len(listener) + Len(requests) + 1)) : OnOpen(F) /\ Bounded' /\ Quiet
    \/ \E from \in SocketStates : OnError(from) /\ Bounded' /\ Quiet
    \/ \E from \in SocketStates : OnClose(from) /\ Bounded' /\ Quiet
    \/ \E F \in SUBSET {1} : Subscribe(EVENTS_OBJECT_TYPE, "cb1", F) /\ Bounded' /\ Quiet

SpecConnect == Init /\ [][NextConnect]_vars

\* ---------------------------------------------------------- limit evaluation
provVars == <<connected, listener, requests, seqNo, currentWaitIndex, reconnectTimeout,
              socket, sockets, keepAliveInterval, timerDelay, fails, wire, subscribed,
              delivered, handles, frame>>

\* the host evaluates the telemetry point it holds
Evaluate ==
    /\ ~evaluationResult.called
    /\ evaluationResult' = [called |-> TRUE, value |-> evaluate(datum)]
    /\ datum' = datum
    /\ UNCHANGED provVars

InitLimits ==
    /\ ProviderInit
    /\ datum \in Datums
    /\ evaluationResult = NotCalled

NextLimits == Evaluate

SpecLimits == InitLimits /\ [][NextLimits]_vars

\* ------------------------------------------------------------------ claims
Range(q) == {q[i] : i \in 1..Len(q)}
Registered == Range(Keys(listener))

\* the subscribe request a channel stands for
SubReq(id) == IF id = EVENTS_OBJECT_TYPE
              THEN [cmd |-> "events", op |-> "subscribe", name |-> ""]
              ELSE [cmd |-> "parameter", op |-> "subscribe", name |-> idToQualifiedName(id)]

\* the last handler was onopen, and it made a send
OpenRan == wire # <<>> /\ wire[1].by \in {"resubscribeToAll", "flushQueue"}

Attempted(req) == \E i \in 1..Len(wire) : wire[i].req = req
Sent(req) == \E i \in 1..Len(wire) : wire[i].req = req /\ wire[i].ok

\* C1: when the open handler has run, a send of the channel's subscribe request
\* was attempted for every channel of the registry (events-subscribe for the
\* event channel, parameter-subscribe with the translated name for the others),
\* and each of them was sent or is in the outbound queue.
C1_ResubscribeOnOpen ==
    OpenRan =>
        \A id \in Registered :
            /\ Attempted(SubReq(id))
            /\ Sent(SubReq(id)) \/ SubReq(id) \in Range(requests)

\* an open handler with both channels registered whose sweep send threw, the
\* request being in the queue afterwards
C1_Witness ==
    /\ OpenRan
    /\ Registered = Ids
    /\ \E i \in 1..Len(wire) :
           /\ wire[i].by = "resubscribeToAll"
           /\ ~wire[i].ok
           /\ wire[i].req \in Range(requests)

C3_NeverGivesUp ==
    (socket = 1 /\ ~connected) =>
        (reconnectTimeout = "pending" \/ sockets["connecting"] > 0)

Smaller(a, b) == IF a < b THEN a ELSE b

\* C9 as claimed: the Nth reconnect scheduled in a row waits
\* schedule[min(N-1, len-1)] (0-based), the retry index never exceeds the length
\* of the schedule, and the delay read is an entry of the schedule.
C9_BackoffSchedule ==
    /\ currentWaitIndex <= Len(FALLBACK_AND_WAIT_MS)
    /\ reconnectTimeout = "pending" =>
           /\ timerDelay # Undefined
           /\ timerDelay =
                  FALLBACK_AND_WAIT_MS[Smaller(fails, Len(FALLBACK_AND_WAIT_MS))]

\* C10: with no reconnect scheduled since the last open the retry index is 0,
\* and the first reconnect scheduled after an open waits the first delay of
\* the schedule.
C10_ResetOnOpen ==
    /\ fails = 0 => currentWaitIndex = 0
    /\ (reconnectTimeout = "pending" /\ fails = 1) =>
           timerDelay = FALLBACK_AND_WAIT_MS[1]

\* a socket has opened, and the one reconnect scheduled since waits 1 s
C10_Witness ==
    /\ keepAliveInterval
    /\ sockets["open"] = 0
    /\ reconnectTimeout = "pending"
    /\ fails = 1
    /\ timerDelay = 1000

\* the subscribe requests the last handler put on the socket
SubscribesOnWire ==
    {wire[i].req : i \in {j \in 1..Len(wire) :
                              wire[j].req.op = "subscribe" /\ wire[j].req.name # "[]"}}

\* C4 as claimed: when the open handler has run and every send of it returned,
\* the channels whose subscribe request it sent (sweep and drain) are exactly
\* the channels of the registry.
C4_ResubscribeExact ==
    (OpenRan /\ \A i \in 1..Len(wire) : wire[i].ok) =>
        SubscribesOnWire = {SubReq(id) : id \in Registered}

\* the sends of the last drain, in order
Drained == SelectSeq(wire, LAMBDA e : e.by = "flushQueue")

\* C5 as claimed: a drain stops at the first send that throws, and the request
\* of that send is then the head of the queue.
C5_DrainStopsAtFailure ==
    \A i \in 1..Len(Drained) :
        ~Drained[i].ok =>
            /\ i = Len(Drained)
            /\ requests # <<>>
            /\ Head(requests) = Drained[i].req

\* C6 as claimed: the handle of a registration sends or queues at most one
\* unsubscribe request, however often it is invoked.
C6_AtMostOneUnsubscribe ==
    \A r \in Regs : handles[r] <= 1

\* the unsubscribe request that matches a channel's subscribe request
UnsubReq(id) == IF id = EVENTS_OBJECT_TYPE
                THEN [cmd |-> "events", op |-> "unsubscribe", name |-> ""]
                ELSE [cmd |-> "parameter", op |-> "unsubscribe",
                      name |-> idToQualifiedName(id)]

\* C7 as claimed: a handle invoked for a channel sends, or queues when not
\* connected, the unsubscribe request naming that channel, and the channel is
\* no longer in the registry.
C7_MatchingUnsubscribe ==
    [][\A id \in Ids : \A cb \in Callbacks : \A F \in SUBSET {1} :
           Unsubscribe(id, cb, F) =>
               /\ ~HasKey(listener', id)
               /\ IF wire' # <<>>
                  THEN wire'[1].req = UnsubReq(id)
                  ELSE /\ requests' # <<>>
                       /\ requests'[Len(requests')] = UnsubReq(id)]_vars

\* the callbacks the registry holds for a channel
CallbacksOf(l, id) == {l[i][2] : i \in {j \in 1..Len(l) : l[j][1] = id}}

\* the samples a frame carries for a channel
SamplesFor(fr, id) ==
    IF fr.len < 4 THEN 0
    ELSE IF fr.dt = "PARAMETER"
         THEN Cardinality({i \in 1..Len(fr.params) : qualifiedNameToId(fr.params[i]) = id})
    ELSE IF fr.dt = "EVENT" /\ id = EVENTS_OBJECT_TYPE THEN 1
    ELSE 0

DeliveriesTo(id) == Cardinality({i \in 1..Len(delivered) : delivered[i][2] = id})

\* C8: the registry holds at most one callback per channel; subscribe for a
\* channel leaves the callback it was given as the only one of that channel;
\* and a frame invokes, once per sample of a registered channel, the callback
\* the registry holds for it, and no other callback.
C8_OneCallbackPerChannel ==
    /\ [](/\ \A id \in Ids : Cardinality(CallbacksOf(listener, id)) <= 1
          /\ Cardinality(Registered) = Len(listener)
          /\ \A id \in Ids \cup {qualifiedNameToId(n) : n \in Names} :
                 DeliveriesTo(id) = IF id \in Registered THEN SamplesFor(frame, id) ELSE 0
          /\ \A i \in 1..Len(delivered) :
                 CallbacksOf(listener, delivered[i][2]) = {delivered[i][1]})
    /\ [][\A id \in Ids : \A cb \in Callbacks :
              Subscribe(id, cb, {}) => CallbacksOf(listener', id) = {cb}]_vars

\* cb1 and then cb2 were registered for ~p1 and no handle of ~p1 was invoked;
\* a frame with two samples of /p1 invoked cb2 twice
C8_Witness ==
    /\ handles[<<"~p1", "cb1">>] = 0
    /\ handles[<<"~p1", "cb2">>] = 0
    /\ CallbacksOf(listener, "~p1") = {"cb2"}
    /\ frame.dt = "PARAMETER"
    /\ frame.params = <<"/p1", "/p1">>
    /\ delivered = <<<<"cb2", "~p1">>, <<"cb2", "~p1">>>>

\* the severities and directions the evaluator recognizes, with their tokens
Severities == {"WATCH", "WARNING", "DISTRESS", "CRITICAL", "SEVERE"}
StyleToken(mr) == IF mr \in {"WATCH", "WARNING"} THEN "is-limit--yellow" ELSE "is-limit--red"
DirectionToken(rc) == IF rc = "LOW" THEN "is-limit--lwr" ELSE "is-limit--upr"

\* C11: evaluate returns no descriptor exactly when the sample has no
\* monitoringResult or one that is not WATCH, WARNING, DISTRESS, CRITICAL or
\* SEVERE; otherwise the descriptor's name is the monitoringResult and its style
\* class is the severity's token, followed by the LOW or HIGH token exactly when
\* rangeCondition is LOW or HIGH.
C11_EvaluateDescriptor ==
    evaluationResult.called =>
        LET mr == datum.monitoringResult
            rc == datum.rangeCondition
            res == evaluationResult.value
        IN /\ (res = <<>>) <=> (mr = <<>> \/ mr[1] \notin Severities)
           /\ res # <<>> =>
                 /\ res[1].name = mr[1]
                 /\ res[1].cssClass =
                        IF rc \in {<<"LOW">>, <<"HIGH">>}
                        THEN <<StyleToken(mr[1]), " ", DirectionToken(rc[1])>>
                        ELSE <<StyleToken(mr[1])>>

\* the positions of the alarmRange entries whose level is the monitoringResult
Matching(d) ==
    IF d.alarmRange = <<>> \/ d.monitoringResult = <<>> THEN {}
    ELSE {i \in 1..Len(d.alarmRange[1]) : d.alarmRange[1][i].level = d.monitoringResult[1]}

FirstMatching(d) == d.alarmRange[1][CHOOSE i \in Matching(d) : \A j \in Matching(d) : i <= j]

\* C12: for a sample with a recognized monitoringResult and rangeCondition, the
\* descriptor's low is the matching entry's minimum (minExclusive if present,
\* else minInclusive) and its high is the entry's maximum (maxExclusive if
\* present, else maxInclusive), whatever the numbers are; with no matching entry
\* or no alarmRange the descriptor has neither.
C12_CopiesBounds ==
    (/\ evaluationResult.called
     /\ datum.monitoringResult # <<>> /\ datum.monitoringResult[1] \in Severities
     /\ datum.rangeCondition \in {<<"LOW">>, <<"HIGH">>}) =>
        /\ evaluationResult.value # <<>>
        /\ LET res == evaluationResult.value[1] IN
           IF Matching(datum) = {}
           THEN res.low = <<>> /\ res.high = <<>>
           ELSE LET e == FirstMatching(datum) IN
                /\ res.low = IF e.minExclusive # <<>> THEN e.minExclusive ELSE e.minInclusive
                /\ res.high = IF e.maxExclusive # <<>> THEN e.maxExclusive ELSE e.maxInclusive

\* C13: at most one socket created by the provider is opening or open (its
\* handlers are never detached) at any time.
C13_OneLiveConnection == sockets["connecting"] + sockets["open"] <= 1

\* C14: a queued request is sent only while connected is true: connected is
\* true when the open handler starts and false from the first send of the
\* handler that throws, so no send of the drain follows a send that threw, be
\* it a send of the sweep or of the drain itself.
C14_DrainOnlyWhileConnected ==
    \A i \in 1..Len(wire) :
        wire[i].by = "flushQueue" => \A j \in 1..(i - 1) : wire[j].ok

\* C15: the keepalive interval is armed only while connected is true, so no
\* keepalive tick runs, and sends or queues a refresh request, in a state in
\* which connected is false.
C15_KeepAliveOnlyWhileConnected ==
    [][~connected =>
          ~\E F \in SUBSET (1..Len(listener)) :
               KeepAliveTick(F) /\ (wire' # <<>> \/ requests' # requests)]_vars

\* the host called subscribe or a handle, and the call's send threw
HostSendThrew ==
    /\ wire' # <<>>
    /\ wire'[1].by \in {"subscribe", "unsubscribe"}
    /\ ~wire'[1].ok

\* the host called a handle while connected was false
HostCallDisconnected == ~connected /\ \E id \in Ids : \E cb \in Callbacks : Unsubscribe(id, cb, {})

\* the request was appended to the end of the queue
Appended == /\ Len(requests') = Len(requests) + 1
            /\ SubSeq(requests', 1, Len(requests)) = requests

\* C16: when subscribe or a handle sends while connected and the send throws,
\* connected becomes false, the request is appended to the end of the queue and
\* a reconnect timer is pending; when a handle is invoked while not connected,
\* the request is appended to the queue and nothing else of the connection
\* changes.
C16_SendFailureQueues ==
    /\ [][HostSendThrew => /\ connected /\ ~connected'
                           /\ Appended
                           /\ requests'[Len(requests')] = wire'[1].req
                           /\ reconnectTimeout' = "pending"]_vars
    /\ [][HostCallDisconnected =>
              /\ Appended
              /\ wire' = <<>>
              /\ UNCHANGED <<connected, seqNo, currentWaitIndex, reconnectTimeout,
                             timerDelay, socket, sockets, subscribed>>]_vars

\* the same, with reconnect() called rather than a timer pending: the marker
\* this.reconnectTimeout is set afterwards
C16_SendFailureCallsReconnect ==
    /\ [][HostSendThrew => /\ connected /\ ~connected'
                           /\ Appended
                           /\ requests'[Len(requests')] = wire'[1].req
                           /\ reconnectTimeout' # "undefined"]_vars
    /\ [][HostCallDisconnected =>
              /\ Appended
              /\ wire' = <<>>
              /\ UNCHANGED <<connected, seqNo, currentWaitIndex, reconnectTimeout,
                             timerDelay, socket, sockets, subscribed>>]_vars

\* C17: connect() called while a socket is open or a reconnect timer is pending
\* creates no socket and leaves the sequence number, the connection state, the
\* registry and the queue as they are.
C17_ConnectNoOp ==
    [][(Connect /\ (sockets["open"] > 0 \/ reconnectTimeout = "pending")) =>
           UNCHANGED <<socket, sockets, seqNo, connected, listener, requests>>]_vars

\* C18: the marker this.reconnectTimeout is set exactly when a reconnect timer
\* is pending; a timer cancelled by an open leaves no marker behind.
C18_MarkerIffPending ==
    (reconnectTimeout # "undefined") <=> (reconnectTimeout = "pending" /\ timerDelay # 0)

\* C19: invoking the handle returned for callback cb1 of a channel, after the
\* channel was subscribed again with callback cb2, leaves cb2 registered for
\* the channel.
C19_HandleRemovesOwnRegistration ==
    [][\A id \in Ids :
          (Unsubscribe(id, "cb1", {}) /\ CallbacksOf(listener, id) = {"cb2"}) =>
              CallbacksOf(listener', id) = {"cb2"}]_vars

\* the event-channel requests of the last handler's sends, in order
EventSends == SelectSeq(wire, LAMBDA e : e.req.cmd = "events")

\* C20: when the open handler has run with every send succeeding and the event
\* channel is registered, the last event-channel request sent on the new
\* connection is the events subscribe.
C20_ReplayKeepsRegistration ==
    (/\ OpenRan
     /\ \A i \in 1..Len(wire) : wire[i].ok
     /\ EVENTS_OBJECT_TYPE \in Registered) =>
        /\ EventSends # <<>>
        /\ EventSends[Len(EventSends)].req = eventSubscribeReq

====
